---- MODULE Spec2Model ----
(***************************************************************************)
(* State-machine model of the SPI operated motor controller (MSPI.c,       *)
(* SPI.c, PWM.c): the UI task, the two forwarder tasks, the SPI            *)
(* transmitter task, the PWM task, the shared command word and duty cycle  *)
(* with their mutexes and semaphores, the UI task's message queue and the  *)
(* layered LCD.                                                            *)
(***************************************************************************)
EXTENDS Integers, Sequences, FiniteSets, TLC

(***************************************************************************)
(* Program constants                                                       *)
(***************************************************************************)
UI_TASK_MSG_Q_SIZE == 5
NO_FAULT == 0
EMERGENCY_STOP == 0

OUTPUT_ONE_MASK == 1
OUTPUT_TWO_MASK == 2
OUTPUT_THR_MASK == 4
OUTPUT_FOU_MASK == 8
OUTPUT_FIV_MASK == 16
OUTPUT_SIX_MASK == 32
OUTPUT_SEV_MASK == 64
OUTPUT_EGT_MASK == 128

STATUS_ROW == 1
UI_ROW == 2
FIRST_COL == 1
UI_OUT_COL == 5
FAULT_MSG_OUT_COLLEM == 8
UI_PWM_MSG_COL == 10
UI_PWM_WRITE == 14
UI_PWM_TENS == 15
UI_PWM_ONES == 16
CURSOR_ON == 1
CURSOR_OFF == 0

A_KEY == 17
B_KEY == 18
C_KEY == 19
D_KEY == 20
ZERO_KEY == 48
FOUR_KEY == 52
SEV_KEY == 55
NIN_KEY == 57
NUMBER_KEY_TO_DEC_FACTOR == 48

OUT_ONE_MSG == "OUT1"
OUT_TWO_MSG == "OUT2"
OUT_THR_MSG == "OUT3"
OUT_FOU_MSG == "OUT4"
OUT_FIV_MSG == "OUT5"
OUT_SIX_MSG == "OUT6"
OUT_SEV_MSG == "OUT7"
OUT_EGT_MSG == "OUT8"
MULIT_FAULT_MSG == "Many"
FAULT_MSG == "Fault: "
SET_MSG == "SET:"
PWM_MSG == "PWM%"
NO_OUTPUT_MSG == "Outputs Off"

UI_LAYER == "UI_LAYER"
FAULT_LAYER == "FAULT_LAYER"

(***************************************************************************)
(* Bounds of the model                                                     *)
(***************************************************************************)
\* events the keypad and the device deliver ahead of the UI task
MaxOutstanding == 1
\* commands after which the keypad delivers no further key: the counters of
\* the semaphores nothing pends on count every command
MaxSemCtr == 2
\* commands and pushes the command history records
MaxLog == 2
\* transfers the link's transmit FIFO is followed up to
MaxInFlight == 2

\* keys and fault words of an entry that is interrupted, cancelled or committed
FaultKeyInputs == {A_KEY, B_KEY, D_KEY, ZERO_KEY, FOUR_KEY}

\* keys the keypad delivers: select/accept, emergency stop, digits and outputs
KeyInputs == {A_KEY, D_KEY, ZERO_KEY, FOUR_KEY, SEV_KEY}
\* fault words the device reports: none and one output at fault
FaultInputs == {NO_FAULT, OUTPUT_ONE_MASK}
\* the fault words the decoding distinguishes: none, each output, several
AllFaultInputs == {NO_FAULT, OUTPUT_ONE_MASK, OUTPUT_TWO_MASK, OUTPUT_THR_MASK,
                   OUTPUT_FOU_MASK, OUTPUT_FIV_MASK, OUTPUT_SIX_MASK,
                   OUTPUT_SEV_MASK, OUTPUT_EGT_MASK, 3, 129, 255}
\* keys enough to commit a full drive, a duty cycle and an emergency stop
PwmKeyInputs == {A_KEY, D_KEY, ZERO_KEY, FOUR_KEY}
\* keys that start an entry and send the emergency stop command
LinkKeyInputs == {A_KEY, D_KEY}
\* every kind of key: select/accept, back, a key with no function, stop,
\* the two output keys (also digits) and one more digit
EntryKeyInputs == {A_KEY, B_KEY, C_KEY, D_KEY, ZERO_KEY, FOUR_KEY, SEV_KEY}
\* a fault that takes the UI to FAULT
EntryFaultInputs == {OUTPUT_ONE_MASK}
\* two keys the UI ignores outside an entry
AheadKeyInputs == {ZERO_KEY, FOUR_KEY}
\* events the sources may deliver ahead of UITask
MaxAhead == 2
\* one key and one fault to fill the queue with
QueueKeyInputs == {ZERO_KEY}
QueueFaultInputs == {OUTPUT_ONE_MASK}
\* events the sources may deliver ahead of UITask: the queue's capacity, the
\* message being handled and one more
MaxQueued == 7
\* message sizes no forwarder uses
StraySizes == {0, 4}

VARIABLES
    \* UITask locals (MSPI.c 248-256)
    currentstate, currentplace, copiedmsg, msg_size,
    whichOutput, nextPWMRate, nextSpiMsg,
    uiPc,          \* position of UITask in its loop
    uiBranch,      \* which service-calling branch of the handler is running
    inbox,         \* UITask's task message queue: pointers with sizes
    lcd,           \* the layered display
    \* UIKeySrvTask / UISPISrvTask
    keypress, keyPc, spimsg, spiSrvPc,
    \* SPI module
    spiMsg, SpiDataKey, NewSpiData, spiFault, spiFaultFlag,
    addr0,         \* what a read of address 0 finds: no mapping, or 16 bits
    spiPc, newMsg, tcf, inflight,
    \* PWM rate (MSPI.c) and PWM module
    pwmrate, PwmRateKey, NewPwmRate, PWMChgFlag, pwmPc,
    \* history of the current UITask iteration
    enteredIn,     \* currentstate when the message was received
    entry,         \* the UI task's data and the value the sender posted, when
                   \* the message was received
    iterLog,       \* service writes made while handling the message
    \* history of the command word
    cmdLog,        \* the first words stored by setSpiData, in order
    pushLog,       \* the first words SPITask pushed onto the link, in order
    \* history of the fault events
    faultEvents,   \* words of the events signalled and not yet taken by SPIPend
    evWord         \* word of the event the listener is forwarding

uiLocals == <<currentstate, currentplace, whichOutput, nextPWMRate, nextSpiMsg>>
uiVars == <<currentstate, currentplace, copiedmsg, msg_size, whichOutput,
            nextPWMRate, nextSpiMsg, uiPc, uiBranch, lcd, enteredIn, entry, iterLog>>
keyVars == <<keypress, keyPc>>
lstVars == <<spimsg, spiSrvPc, spiFault, spiFaultFlag, faultEvents, evWord>>
cmdVars == <<spiMsg, SpiDataKey, NewSpiData, cmdLog, addr0>>
txVars == <<spiPc, newMsg, tcf, inflight, pushLog>>
pwmVars == <<pwmrate, PwmRateKey, NewPwmRate>>
pwmTaskVars == <<PWMChgFlag, pwmPc>>
vars == <<uiVars, inbox, keyVars, lstVars, cmdVars, txVars, pwmVars, pwmTaskVars>>

Min(a, b) == IF a < b THEN a ELSE b

\* a history that records its first n entries
Record(log, v, n) == IF Len(log) < n THEN Append(log, v) ELSE log

(***************************************************************************)
(* The layered LCD, as the calls UITask makes on it.  A layer holds text   *)
(* fields by (row, column) of their first character and decimal fields.    *)
(***************************************************************************)
TextCells == {<<STATUS_ROW, FIRST_COL>>, <<STATUS_ROW, FAULT_MSG_OUT_COLLEM>>,
              <<STATUS_ROW, UI_PWM_MSG_COL>>, <<UI_ROW, FIRST_COL>>,
              <<UI_ROW, UI_OUT_COL>>, <<UI_ROW, UI_PWM_MSG_COL>>}
DecCells == {<<STATUS_ROW, UI_PWM_WRITE>>, <<UI_ROW, UI_PWM_WRITE>>}
BLANK_DEC == 0 - 1

BlankLayer == [text |-> [c \in TextCells |-> ""], dec |-> [c \in DecCells |-> BLANK_DEC]]

LcdBlank == [shown |-> [l \in {UI_LAYER, FAULT_LAYER} |-> FALSE],
             layer |-> [l \in {UI_LAYER, FAULT_LAYER} |-> BlankLayer],
             cursor |-> [on |-> CURSOR_OFF, row |-> UI_ROW, col |-> FIRST_COL]]

LcdDispString(l, row, col, layer, str) ==
    [l EXCEPT !.layer[layer].text[<<row, col>>] = str]

LcdDispDecByte(l, row, col, layer, b) ==
    [l EXCEPT !.layer[layer].dec[<<row, col>>] = b]

LcdDispClrLine(l, row, layer) ==
    [l EXCEPT !.layer[layer] =
        [text |-> [c \in TextCells |-> IF c[1] = row THEN "" ELSE @.text[c]],
         dec |-> [c \in DecCells |-> IF c[1] = row THEN BLANK_DEC ELSE @.dec[c]]]]

LcdDispClear(l, layer) == [l EXCEPT !.layer[layer] = BlankLayer]

LcdShowLayer(l, layer) == [l EXCEPT !.shown[layer] = TRUE]

LcdHideLayer(l, layer) == [l EXCEPT !.shown[layer] = FALSE]

LcdCursor(l, row, col, on) == [l EXCEPT !.cursor = [on |-> on, row |-> row, col |-> col]]


(***************************************************************************)
(* Memory reads the program makes outside any object it owns.              *)
(***************************************************************************)
\* setSpiData(EMERGENCY_STOP, ..) and setPwmRate((INT8U)EMERGENCY_STOP, ..)
\* pass the integer constant 0 where a pointer is expected: the callee reads
\* through a null pointer and stores whatever address 0 holds.
NULL == "NULL"
\* address 0 is not mapped, and a read of it stops the task
Unmapped == 0 - 2
\* the outcome of a read that stops the task
Fault == 0 - 1
\* the 16 bits address 0 can hold when it is mapped
ZeroWords == {0, 4660, 8447}
\* a 16-bit read of address 0; where the compiler sees the null pointer of
\* the call together with the body of setSpiData (link-time optimisation, one
\* translation unit), it may compile the read to a trap
NullWord == IF addr0 = Unmapped THEN {Fault} ELSE {Fault, addr0}
\* an 8-bit read of address 0 (little endian); setPwmRate is in the file of
\* its call, and the read may be compiled to a trap
NullByte == IF addr0 = Unmapped THEN {Fault} ELSE {Fault, addr0 % 256}
\* error code of OSTaskQPost on a full queue (kernel header)
OS_ERR_Q_MAX == 26502
\* copiedmsg = *queuedmsg reads an INT16U at the address of the INT8U
\* keypress: the high byte is the byte that follows keypress in
\* UIKeySrvTask's frame. The compiler places there the low byte of os_err,
\* which is not zero once the forwarder is in its error trap, or the low
\* byte of msg_size = sizeof(keypress).
StackByte == {IF keyPc = "trap" THEN OS_ERR_Q_MAX % 256 ELSE 0, 1}
\* whichOutput, nextPWMRate and nextSpiMsg are declared without initializer
UninitByte == {0, 255}
UninitWord == {0, 65535}

(***************************************************************************)
(* UITask: pure parts of the message handler                               *)
(***************************************************************************)
\* (mutation: the lower bound of the digit test is dropped)
IsDigitKey_Mut(msg) == msg <= NIN_KEY

IsDigitKey(msg) == (msg >= ZERO_KEY) /\ (msg <= NIN_KEY)

\* (mutation: the tens digit replaces the whole value)
TensValue_Mut(rate, msg) == (10 * (msg - NUMBER_KEY_TO_DEC_FACTOR)) % 256

\* case TENS: change only the tens place (INT8U arithmetic)
TensValue(rate, msg) ==
    (10 * (msg - NUMBER_KEY_TO_DEC_FACTOR) + (rate - (10 * (rate \div 10)))) % 256

\* case ONES: change only the ones place (INT8U arithmetic)
OnesValue(rate, msg) ==
    ((msg - NUMBER_KEY_TO_DEC_FACTOR) + (10 * (rate \div 10))) % 256

\* case OUT: the keys that select an output
IsOutputKey(msg) == msg \in {FOUR_KEY, SEV_KEY}
OutputOfKey(msg) == IF msg = FOUR_KEY THEN 4 ELSE 7
SpiMsgOfKey(msg) == IF msg = FOUR_KEY THEN OUTPUT_ONE_MASK ELSE OUTPUT_THR_MASK
OutMsgOfKey(msg) == IF msg = FOUR_KEY THEN OUT_FOU_MSG ELSE OUT_SEV_MSG

\* (mutation: the fault word is not looked at)
IsFaultClear_Mut(msg, state) == state = "FAULT"

\* the 2-byte branch: which messages return the UI to normal status
IsFaultClear(msg, state) == (msg = NO_FAULT) /\ (state = "FAULT")

\* the name written at FAULT_MSG_OUT_COLLEM for a fault word
FaultName(msg) ==
    IF msg = OUTPUT_ONE_MASK THEN OUT_ONE_MSG
    ELSE IF msg = OUTPUT_TWO_MASK THEN OUT_TWO_MSG
    ELSE IF msg = OUTPUT_THR_MASK THEN OUT_THR_MSG
    ELSE IF msg = OUTPUT_FOU_MASK THEN OUT_FOU_MSG
    ELSE IF msg = OUTPUT_FIV_MASK THEN OUT_FIV_MSG
    ELSE IF msg = OUTPUT_SIX_MASK THEN OUT_SIX_MSG
    ELSE IF msg = OUTPUT_SEV_MASK THEN OUT_SEV_MSG
    ELSE IF msg = OUTPUT_EGT_MASK THEN OUT_EGT_MSG
    ELSE MULIT_FAULT_MSG

\* display updates of each branch, in the order of the calls
LcdPreset ==
    LcdShowLayer(LcdDispString(LcdBlank, STATUS_ROW, FIRST_COL, UI_LAYER, NO_OUTPUT_MSG),
                 UI_LAYER)

LcdSelect(l) ==
    LcdCursor(LcdDispString(l, UI_ROW, FIRST_COL, UI_LAYER, SET_MSG),
              UI_ROW, UI_OUT_COL, CURSOR_ON)

LcdOutput(l, msg) ==
    LET l1 == LcdDispString(l, UI_ROW, UI_OUT_COL, UI_LAYER, OutMsgOfKey(msg))
        l2 == LcdDispString(l1, UI_ROW, UI_PWM_MSG_COL, UI_LAYER, PWM_MSG)
        l3 == LcdCursor(l2, UI_ROW, UI_PWM_TENS, CURSOR_ON)
    IN  LcdShowLayer(l3, UI_LAYER)

LcdTens(l, rate) ==
    LET l1 == LcdDispDecByte(l, UI_ROW, UI_PWM_WRITE, UI_LAYER, rate)
        l2 == LcdCursor(l1, UI_ROW, UI_PWM_ONES, CURSOR_ON)
    IN  LcdShowLayer(l2, UI_LAYER)

LcdTensBack(l) == LcdCursor(l, UI_ROW, UI_OUT_COL, CURSOR_ON)

LcdOnes(l, rate) ==
    LcdCursor(LcdDispDecByte(l, UI_ROW, UI_PWM_WRITE, UI_LAYER, rate),
              UI_ROW, UI_PWM_ONES, CURSOR_ON)

LcdOnesBack(l) == LcdCursor(l, UI_ROW, UI_PWM_TENS, CURSOR_ON)

LcdAccept(l, which, rate) ==
    LET l1 == LcdDispClear(l, UI_LAYER)
        l2 == IF which = 4
                THEN LcdDispString(l1, STATUS_ROW, FIRST_COL, UI_LAYER, OUT_FOU_MSG)
                ELSE IF which = 7
                       THEN LcdDispString(l1, STATUS_ROW, FIRST_COL, UI_LAYER, OUT_SEV_MSG)
                       ELSE l1
        l3 == LcdDispString(l2, STATUS_ROW, UI_PWM_MSG_COL, UI_LAYER, PWM_MSG)
        l4 == LcdDispDecByte(l3, STATUS_ROW, UI_PWM_WRITE, UI_LAYER, rate)
    IN  LcdCursor(l4, UI_ROW, FIRST_COL, CURSOR_OFF)

LcdEStop(l) ==
    LET l1 == LcdDispClrLine(l, STATUS_ROW, UI_LAYER)
        l2 == LcdDispString(l1, STATUS_ROW, FIRST_COL, UI_LAYER, NO_OUTPUT_MSG)
        l3 == LcdHideLayer(l2, FAULT_LAYER)
    IN  LcdShowLayer(l3, UI_LAYER)

LcdFaultClear(l) == LcdShowLayer(LcdHideLayer(l, FAULT_LAYER), UI_LAYER)

\* (mutation: the fault banner is shown without hiding the status layer)
LcdFault_Mut(l, msg) ==
    LET l2 == LcdDispString(l, STATUS_ROW, FIRST_COL, FAULT_LAYER, FAULT_MSG)
        l3 == LcdDispString(l2, STATUS_ROW, FAULT_MSG_OUT_COLLEM, FAULT_LAYER, FaultName(msg))
    IN  LcdShowLayer(l3, FAULT_LAYER)

LcdFault(l, msg) ==
    LET l1 == LcdHideLayer(l, UI_LAYER)
        l2 == LcdDispString(l1, STATUS_ROW, FIRST_COL, FAULT_LAYER, FAULT_MSG)
        l3 == LcdDispString(l2, STATUS_ROW, FAULT_MSG_OUT_COLLEM, FAULT_LAYER, FaultName(msg))
    IN  LcdShowLayer(l3, FAULT_LAYER)

\* the state the 2-byte fault branch leaves the UI in
FaultState == "FAULT"

\* arguments of the service calls of each calling branch
\*   "estop": D_KEY             setSpiData(EMERGENCY_STOP), setPwmRate((INT8U)EMERGENCY_STOP)
\*   "full":  accept, rate = 0  setSpiData(&nextSpiMsg)
\*   "pwm":   accept, rate # 0  setSpiData(EMERGENCY_STOP), setPwmRate(&nextPWMRate)
SpiArg(branch) == IF branch = "full" THEN "nextSpiMsg" ELSE NULL
PwmArg(branch) == IF branch = "pwm" THEN "nextPWMRate" ELSE NULL
CallsPwm(branch) == branch \in {"estop", "pwm"}

\* the values *passmsg / *passpwm can yield
Deref16(ptr) == IF ptr = NULL THEN NullWord ELSE {nextSpiMsg}
Deref8(ptr) == IF ptr = NULL THEN NullByte ELSE {nextPWMRate}

\* copiedmsg = *queuedmsg, queuedmsg an INT16U pointer to the sender's local
ReadMsg(ptr) ==
    IF ptr = "keypress" THEN {keypress + 256 * hi : hi \in StackByte} ELSE {spimsg}


\* what UITask's handler can change, as it is when a message is received;
\* sent is the value the sender held when it posted the message
Snapshot(sent) ==
    [place |-> currentplace, which |-> whichOutput, rate |-> nextPWMRate,
     msg |-> nextSpiMsg, lcd |-> lcd, sent |-> sent]

(***************************************************************************)
(* Initial state: tasks created, UITask has preset the screen and every    *)
(* task is about to make its first blocking call; SPIInit has pushed the   *)
(* dummy transfer.                                                         *)
(***************************************************************************)
Init ==
    /\ currentstate = "RUNNING"
    /\ currentplace = "OUT"
    /\ copiedmsg = 0
    /\ msg_size = 0
    /\ whichOutput \in UninitByte
    /\ nextPWMRate \in UninitByte
    /\ nextSpiMsg \in UninitWord
    /\ uiPc = "pend"
    /\ uiBranch = "none"
    /\ inbox = <<>>
    /\ lcd = LcdPreset
    /\ keypress = 0
    /\ keyPc = "pend"
    /\ spimsg = 0
    /\ spiSrvPc = "pend"
    /\ spiMsg = 0
    /\ addr0 \in {Unmapped} \cup ZeroWords
    /\ SpiDataKey = "free"
    /\ NewSpiData = 0
    /\ spiFault = 0
    /\ spiFaultFlag = 0
    /\ spiPc = "get_pend"
    /\ newMsg = 0
    /\ tcf = FALSE
    /\ inflight = 1
    /\ pwmrate = 0
    /\ PwmRateKey = "free"
    /\ NewPwmRate = 0
    /\ PWMChgFlag = 0
    /\ pwmPc = "start"
    /\ enteredIn = "RUNNING"
    /\ entry = Snapshot(0)
    /\ iterLog = <<>>
    /\ cmdLog = <<>>
    /\ pushLog = <<>>
    /\ faultEvents = <<>>
    /\ evWord = 0

(***************************************************************************)
(* UITask                                                                  *)
(***************************************************************************)
\* OSTaskQPend, then copiedmsg = *queuedmsg
UIReceive ==
    /\ uiPc = "pend"
    /\ inbox # <<>>
    /\ inbox' = Tail(inbox)
    /\ msg_size' = Head(inbox).size
    /\ copiedmsg' \in ReadMsg(Head(inbox).ptr)
    /\ enteredIn' = currentstate
    /\ entry' = Snapshot(Head(inbox).sent)
    /\ iterLog' = <<>>
    /\ uiPc' = "dispatch"
    /\ UNCHANGED <<uiLocals, uiBranch, lcd>>
    /\ UNCHANGED <<keyVars, lstVars, cmdVars, txVars, pwmVars, pwmTaskVars>>

\* a branch that calls setSpiData / setPwmRate: the calls run as steps of their own
UICall(branch) ==
    /\ uiBranch' = branch
    /\ uiPc' = "spi_pend"
    /\ UNCHANGED <<uiLocals, lcd>>

\* a branch that only updates the locals and the display
UIDone(state, place, which, rate, msg, l) ==
    /\ currentstate' = state
    /\ currentplace' = place
    /\ whichOutput' = which
    /\ nextPWMRate' = rate
    /\ nextSpiMsg' = msg
    /\ lcd' = l
    /\ uiPc' = "done"
    /\ UNCHANGED uiBranch

\* (mutation: a message that is not handled resets the UI state)
UINothing_Mut == UIDone("RUNNING", "OUT", whichOutput, nextPWMRate, nextSpiMsg, lcd)

\* a branch that does nothing
UINothing == UIDone(currentstate, currentplace, whichOutput, nextPWMRate, nextSpiMsg, lcd)

\* currentstate == RUNNING, any key but D_KEY
UIRunningKey ==
    IF copiedmsg = A_KEY
    THEN UIDone("ADJUST", "OUT", 0, 0, 0, LcdSelect(lcd))
    ELSE UINothing

\* currentstate == ADJUST, case OUT
UIAdjustOut ==
    IF IsOutputKey(copiedmsg)
    THEN UIDone(currentstate, "TENS", OutputOfKey(copiedmsg), nextPWMRate,
                SpiMsgOfKey(copiedmsg), LcdOutput(lcd, copiedmsg))
    ELSE UINothing

\* currentstate == ADJUST, case TENS
UIAdjustTens ==
    IF IsDigitKey(copiedmsg)
    THEN UIDone(currentstate, "ONES", whichOutput, TensValue(nextPWMRate, copiedmsg),
                nextSpiMsg, LcdTens(lcd, TensValue(nextPWMRate, copiedmsg)))
    ELSE IF copiedmsg = B_KEY
    THEN UIDone(currentstate, "OUT", whichOutput, 0, nextSpiMsg, LcdTensBack(lcd))
    ELSE UINothing

\* currentstate == ADJUST, case ONES
UIAdjustOnes ==
    IF IsDigitKey(copiedmsg)
    THEN UIDone(currentstate, "ONES", whichOutput, OnesValue(nextPWMRate, copiedmsg),
                nextSpiMsg, LcdOnes(lcd, OnesValue(nextPWMRate, copiedmsg)))
    ELSE IF copiedmsg = B_KEY
    THEN UIDone(currentstate, "TENS", whichOutput, nextPWMRate, nextSpiMsg,
                LcdOnesBack(lcd))
    ELSE IF copiedmsg = A_KEY
    THEN UICall(IF nextPWMRate = 0 THEN "full" ELSE "pwm")
    ELSE UINothing

\* msg_size == 1
UIKeyMsg ==
    IF copiedmsg = D_KEY
    THEN UICall("estop")
    ELSE IF (currentstate = "RUNNING") /\ (copiedmsg # D_KEY)
    THEN UIRunningKey
    ELSE IF (currentstate = "ADJUST") /\ (copiedmsg # D_KEY)
    THEN CASE currentplace = "OUT" -> UIAdjustOut
           [] currentplace = "TENS" -> UIAdjustTens
           [] currentplace = "ONES" -> UIAdjustOnes
    ELSE UINothing

\* (mutation: a fault report clears the duty-cycle accumulator)
UISpiMsg_Mut ==
    IF IsFaultClear(copiedmsg, currentstate)
    THEN UIDone("RUNNING", currentplace, whichOutput, nextPWMRate, nextSpiMsg,
                LcdFaultClear(lcd))
    ELSE UIDone(FaultState, currentplace, whichOutput, 0, nextSpiMsg,
                LcdFault(lcd, copiedmsg))

\* msg_size == 2
UISpiMsg ==
    IF IsFaultClear(copiedmsg, currentstate)
    THEN UIDone("RUNNING", currentplace, whichOutput, nextPWMRate, nextSpiMsg,
                LcdFaultClear(lcd))
    ELSE UIDone(FaultState, currentplace, whichOutput, nextPWMRate, nextSpiMsg,
                LcdFault(lcd, copiedmsg))

\* the dispatch on msg_size, up to the first service call of the branch taken
UIDispatch ==
    /\ uiPc = "dispatch"
    /\ IF msg_size = 1 THEN UIKeyMsg
       ELSE IF msg_size = 2 THEN UISpiMsg
       ELSE UINothing
    /\ UNCHANGED <<copiedmsg, msg_size, enteredIn, entry, iterLog, inbox>>
    /\ UNCHANGED <<keyVars, lstVars, cmdVars, txVars, pwmVars, pwmTaskVars>>

\* setSpiData: OSMutexPend(&SpiDataKey)
UISetSpiPend ==
    /\ uiPc = "spi_pend"
    /\ SpiDataKey = "free"
    /\ SpiDataKey' = "UITask"
    /\ uiPc' = "spi_write"
    /\ UNCHANGED <<uiLocals, copiedmsg, msg_size, uiBranch, lcd, enteredIn, entry, iterLog>>
    /\ UNCHANGED <<spiMsg, NewSpiData, cmdLog, addr0, inbox, keyVars, lstVars, txVars, pwmVars, pwmTaskVars>>

\* setSpiData: spiMsg = *passmsg (the history records the first L commands)
UISetSpiWrite(L) ==
    /\ uiPc = "spi_write"
    /\ \E v \in Deref16(SpiArg(uiBranch)) :
          IF v = Fault
          THEN /\ uiPc' = "faulted"
               /\ UNCHANGED <<spiMsg, iterLog, cmdLog>>
          ELSE /\ spiMsg' = v
               /\ iterLog' = Append(iterLog, <<"spi", v>>)
               /\ cmdLog' = Record(cmdLog, v, L)
               /\ uiPc' = "spi_post"
    /\ UNCHANGED <<uiLocals, copiedmsg, msg_size, uiBranch, lcd, enteredIn, entry>>
    /\ UNCHANGED <<SpiDataKey, NewSpiData, addr0, inbox, keyVars, lstVars, txVars, pwmVars, pwmTaskVars>>

\* (mutation: setSpiData returns without releasing SpiDataKey)
UISetSpiPost_Mut ==
    /\ uiPc = "spi_post"
    /\ uiPc' = "spi_sem"
    /\ UNCHANGED <<uiLocals, copiedmsg, msg_size, uiBranch, lcd, enteredIn, entry, iterLog>>
    /\ UNCHANGED <<cmdVars, inbox, keyVars, lstVars, txVars, pwmVars, pwmTaskVars>>

\* setSpiData: OSMutexPost(&SpiDataKey)
UISetSpiPost ==
    /\ uiPc = "spi_post"
    /\ SpiDataKey' = "free"
    /\ uiPc' = "spi_sem"
    /\ UNCHANGED <<uiLocals, copiedmsg, msg_size, uiBranch, lcd, enteredIn, entry, iterLog>>
    /\ UNCHANGED <<spiMsg, NewSpiData, cmdLog, addr0, inbox, keyVars, lstVars, txVars, pwmVars, pwmTaskVars>>

\* setSpiData: OSSemPost(&NewSpiData), and the return to UITask
UISetSpiSem ==
    /\ uiPc = "spi_sem"
    /\ NewSpiData' = NewSpiData + 1
    /\ uiPc' = IF CallsPwm(uiBranch) THEN "pwm_pend" ELSE "finish"
    /\ UNCHANGED <<uiLocals, copiedmsg, msg_size, uiBranch, lcd, enteredIn, entry, iterLog>>
    /\ UNCHANGED <<spiMsg, SpiDataKey, cmdLog, addr0, inbox, keyVars, lstVars, txVars, pwmVars, pwmTaskVars>>

\* setPwmRate: OSMutexPend(&PwmRateKey)
UISetPwmPend ==
    /\ uiPc = "pwm_pend"
    /\ PwmRateKey = "free"
    /\ PwmRateKey' = "UITask"
    /\ uiPc' = "pwm_write"
    /\ UNCHANGED <<uiLocals, copiedmsg, msg_size, uiBranch, lcd, enteredIn, entry, iterLog>>
    /\ UNCHANGED <<pwmrate, NewPwmRate, inbox, keyVars, lstVars, cmdVars, txVars, pwmTaskVars>>

\* setPwmRate: pwmrate = *passpwm
UISetPwmWrite ==
    /\ uiPc = "pwm_write"
    /\ \E v \in Deref8(PwmArg(uiBranch)) :
          IF v = Fault
          THEN /\ uiPc' = "faulted"
               /\ UNCHANGED <<pwmrate, iterLog>>
          ELSE /\ pwmrate' = v
               /\ iterLog' = Append(iterLog, <<"pwm", v>>)
               /\ uiPc' = "pwm_post"
    /\ UNCHANGED <<uiLocals, copiedmsg, msg_size, uiBranch, lcd, enteredIn, entry>>
    /\ UNCHANGED <<PwmRateKey, NewPwmRate, inbox, keyVars, lstVars, cmdVars, txVars, pwmTaskVars>>

\* setPwmRate: OSMutexPost(&PwmRateKey)
UISetPwmPost ==
    /\ uiPc = "pwm_post"
    /\ PwmRateKey' = "free"
    /\ uiPc' = "pwm_sem"
    /\ UNCHANGED <<uiLocals, copiedmsg, msg_size, uiBranch, lcd, enteredIn, entry, iterLog>>
    /\ UNCHANGED <<pwmrate, NewPwmRate, inbox, keyVars, lstVars, cmdVars, txVars, pwmTaskVars>>

\* setPwmRate: OSSemPost(&NewPwmRate), and the return to UITask
UISetPwmSem ==
    /\ uiPc = "pwm_sem"
    /\ NewPwmRate' = NewPwmRate + 1
    /\ uiPc' = "finish"
    /\ UNCHANGED <<uiLocals, copiedmsg, msg_size, uiBranch, lcd, enteredIn, entry, iterLog>>
    /\ UNCHANGED <<pwmrate, PwmRateKey, inbox, keyVars, lstVars, cmdVars, txVars, pwmTaskVars>>

\* the rest of a calling branch: display update and currentstate = RUNNING
UIFinish ==
    /\ uiPc = "finish"
    /\ lcd' = IF uiBranch = "estop" THEN LcdEStop(lcd)
              ELSE LcdAccept(lcd, whichOutput, nextPWMRate)
    /\ currentstate' = "RUNNING"
    /\ uiPc' = "done"
    /\ UNCHANGED <<currentplace, whichOutput, nextPWMRate, nextSpiMsg>>
    /\ UNCHANGED <<copiedmsg, msg_size, uiBranch, enteredIn, entry, iterLog, inbox>>
    /\ UNCHANGED <<keyVars, lstVars, cmdVars, txVars, pwmVars, pwmTaskVars>>

\* end of the iteration: back to OSTaskQPend
UILoop ==
    /\ uiPc = "done"
    /\ uiPc' = "pend"
    /\ uiBranch' = "none"
    /\ enteredIn' = currentstate
    /\ entry' = Snapshot(0)
    /\ iterLog' = <<>>
    /\ UNCHANGED <<uiLocals, copiedmsg, msg_size, lcd, inbox>>
    /\ UNCHANGED <<keyVars, lstVars, cmdVars, txVars, pwmVars, pwmTaskVars>>

(***************************************************************************)
(* UIKeySrvTask and UISPISrvTask                                           *)
(***************************************************************************)
\* events delivered by the sources and not yet handled to the end by UITask
Outstanding ==
    Len(inbox) + (IF keyPc = "post" THEN 1 ELSE 0) + (IF spiSrvPc = "post" THEN 1 ELSE 0)
    + spiFaultFlag + (IF uiPc = "pend" THEN 0 ELSE 1)

\* OSTaskQPost(&UITaskTCB, p, size, OS_OPT_POST_FIFO): the queue takes the
\* pointer, or is full and the call fails with an error
\* (sent: the value the pointer led to when the message was posted)
QPost(q, p, size, v) == Append(q, [ptr |-> p, size |-> size, sent |-> v])
QFull(q) == Len(q) >= UI_TASK_MSG_Q_SIZE

\* keypress = KeyPend(0, &os_err), with at most n events outstanding and
\* fewer than MaxSemCtr commands made
KeySrvPendUpTo(K, n) ==
    /\ keyPc = "pend"
    /\ Outstanding < n
    /\ NewSpiData < MaxSemCtr
    /\ \E k \in K : keypress' = k
    /\ keyPc' = "post"
    /\ UNCHANGED <<uiVars, inbox, lstVars, cmdVars, txVars, pwmVars, pwmTaskVars>>

KeySrvPend(K) == KeySrvPendUpTo(K, MaxOutstanding)

\* OSTaskQPost(.., &keypress, sizeof(keypress), ..) and the error trap
KeySrvPost ==
    /\ keyPc = "post"
    /\ IF QFull(inbox)
       THEN keyPc' = "trap" /\ UNCHANGED inbox
       ELSE keyPc' = "pend" /\ inbox' = QPost(inbox, "keypress", 1, keypress)
    /\ UNCHANGED <<uiVars, keypress, lstVars, cmdVars, txVars, pwmVars, pwmTaskVars>>

\* the device reports a fault word: spiFault is set and spiFaultFlag posted
FaultEventUpTo(F, n) ==
    /\ Outstanding < n
    /\ \E f \in F : spiFault' = f /\ faultEvents' = Append(faultEvents, f)
    /\ spiFaultFlag' = spiFaultFlag + 1
    /\ UNCHANGED <<uiVars, inbox, keyVars, spimsg, spiSrvPc, evWord, cmdVars, txVars, pwmVars, pwmTaskVars>>

FaultEvent(F) == FaultEventUpTo(F, MaxOutstanding)

\* spimsg = SPIPend(0, &os_err): OSSemPend(&spiFaultFlag), return spiFault
SPISrvPend ==
    /\ spiSrvPc = "pend"
    /\ spiFaultFlag > 0
    /\ spiFaultFlag' = spiFaultFlag - 1
    /\ spimsg' = spiFault
    /\ evWord' = Head(faultEvents)
    /\ faultEvents' = Tail(faultEvents)
    /\ spiSrvPc' = "post"
    /\ UNCHANGED <<uiVars, inbox, keyVars, spiFault, cmdVars, txVars, pwmVars, pwmTaskVars>>

\* OSTaskQPost(.., &spimsg, sizeof(spimsg), ..) and the error trap
SPISrvPost ==
    /\ spiSrvPc = "post"
    /\ IF QFull(inbox)
       THEN spiSrvPc' = "trap" /\ UNCHANGED inbox
       ELSE spiSrvPc' = "pend" /\ inbox' = QPost(inbox, "spimsg", 2, spimsg)
    /\ UNCHANGED evWord
    /\ UNCHANGED <<uiVars, keyVars, spimsg, spiFault, spiFaultFlag, faultEvents, cmdVars, txVars, pwmVars, pwmTaskVars>>

\* a message of a size no forwarder uses, posted to UITask's queue
StrayPost(Z) ==
    /\ Outstanding < MaxOutstanding
    /\ ~QFull(inbox)
    /\ \E z \in Z : inbox' = QPost(inbox, "spimsg", z, spimsg)
    /\ UNCHANGED <<uiVars, keyVars, lstVars, cmdVars, txVars, pwmVars, pwmTaskVars>>

(***************************************************************************)
(* SPITask and the link                                                    *)
(***************************************************************************)
\* the results OSMutexPend / OSMutexPost can give on NewSpiData, which is an
\* OS_SEM: an object-type error, or success on the semaphore's storage
MutexCallOnSem == {"OS_ERR_NONE", "OS_ERR_OBJ_TYPE"}

\* (mutation: the wait for the previous transfer is skipped)
TransferComplete_Mut == TRUE

\* (SPI1_SR & SPI_SR_TCF_MASK) != 0
TransferComplete == tcf

\* getSpiData: OSMutexPend(&NewSpiData): returns without waiting for a post
SPIGetPend ==
    /\ spiPc = "get_pend"
    /\ spiPc' = "get_read"
    /\ UNCHANGED <<uiVars, inbox, keyVars, lstVars, cmdVars, newMsg, tcf, inflight, pushLog, pwmVars, pwmTaskVars>>

\* getSpiData: *passMsg = spiMsg
SPIGetRead ==
    /\ spiPc = "get_read"
    /\ newMsg' = spiMsg
    /\ spiPc' = "get_post"
    /\ UNCHANGED <<uiVars, inbox, keyVars, lstVars, cmdVars, tcf, inflight, pushLog, pwmVars, pwmTaskVars>>

\* getSpiData: OSMutexPost(&NewSpiData), and SPITask's error trap on os_err
SPIGetPost ==
    /\ spiPc = "get_post"
    /\ \E err \in MutexCallOnSem :
          spiPc' = IF err = "OS_ERR_NONE" THEN "wait_tcf" ELSE "trap"
    /\ UNCHANGED <<uiVars, inbox, keyVars, lstVars, cmdVars, newMsg, tcf, inflight, pushLog, pwmVars, pwmTaskVars>>

\* while((SPI1_SR & SPI_SR_TCF_MASK) == 0){}
SPIWaitTCF ==
    /\ spiPc = "wait_tcf"
    /\ TransferComplete
    /\ spiPc' = "push"
    /\ UNCHANGED <<uiVars, inbox, keyVars, lstVars, cmdVars, newMsg, tcf, inflight, pushLog, pwmVars, pwmTaskVars>>

\* SPI1_SR |= SPI_SR_TCF(1); SPI1_PUSHR = SPI_PUSHR_TXDATA(newMsg) | ..
SPIPush ==
    /\ spiPc = "push"
    /\ tcf' = FALSE
    /\ inflight' = Min(inflight + 1, MaxInFlight)
    /\ pushLog' = Record(pushLog, newMsg, MaxLog)
    /\ spiPc' = "get_pend"
    /\ UNCHANGED <<uiVars, inbox, keyVars, lstVars, cmdVars, newMsg, pwmVars, pwmTaskVars>>

\* the link finishes the oldest transfer and raises the transfer complete flag
LinkComplete ==
    /\ inflight > 0
    /\ inflight' = inflight - 1
    /\ tcf' = TRUE
    /\ UNCHANGED <<uiVars, inbox, keyVars, lstVars, cmdVars, spiPc, newMsg, pushLog, pwmVars, pwmTaskVars>>

(***************************************************************************)
(* PWMTask: one OSSemPend(&PWMChgFlag), then the task function returns.    *)
(* PWMChgFlag is posted by PWMRate() alone, which no code of the program   *)
(* calls; it has external linkage.                                         *)
(***************************************************************************)
\* PWMRate(), called from outside the program: OSSemPost(&PWMChgFlag)
PWMRate ==
    /\ PWMChgFlag < MaxSemCtr
    /\ PWMChgFlag' = PWMChgFlag + 1
    /\ UNCHANGED <<uiVars, inbox, keyVars, lstVars, cmdVars, txVars, pwmVars, pwmPc>>

PWMTask ==
    /\ pwmPc \in {"start", "pend"}
    /\ IF pwmPc = "start"
       THEN pwmPc' = "pend" /\ UNCHANGED PWMChgFlag
       ELSE /\ PWMChgFlag > 0
            /\ PWMChgFlag' = PWMChgFlag - 1
            /\ pwmPc' = "returned"
    /\ UNCHANGED <<uiVars, inbox, keyVars, lstVars, cmdVars, txVars, pwmVars>>

(***************************************************************************)
(* Specifications                                                          *)
(***************************************************************************)
UINext(L) ==
    \/ UIReceive \/ UIDispatch
    \/ UISetSpiPend \/ UISetSpiWrite(L) \/ UISetSpiPost \/ UISetSpiSem
    \/ UISetPwmPend \/ UISetPwmWrite \/ UISetPwmPost \/ UISetPwmSem
    \/ UIFinish \/ UILoop

\* The transmitter task, the link and PWMTask write none of the variables the
\* UI task and the forwarders read; the UI task's only effect on them is
\* through spiMsg, NewSpiData, pwmrate and NewPwmRate.  Each specification
\* schedules the tasks its properties are about.

\* the UI task with its two forwarders
NextUI ==
    \/ UINext(0)
    \/ KeySrvPend(KeyInputs) \/ KeySrvPost
    \/ FaultEvent(FaultInputs) \/ SPISrvPend \/ SPISrvPost

SpecUI == Init /\ [][NextUI]_vars

\* the UI task and the fault listener over every fault word of interest
NextDecode ==
    \/ UIReceive \/ UIDispatch \/ UILoop
    \/ FaultEvent(AllFaultInputs) \/ SPISrvPend \/ SPISrvPost

SpecDecode == Init /\ [][NextDecode]_vars

\* the UI task as producer of commands, SPITask and the link
NextLink ==
    \/ UINext(MaxLog)
    \/ KeySrvPend(LinkKeyInputs) \/ KeySrvPost
    \/ SPIGetPend \/ SPIGetRead \/ SPIGetPost \/ SPIWaitTCF \/ SPIPush \/ LinkComplete

SpecLink == Init /\ [][NextLink]_vars

\* the UI task as producer of duty cycles, and PWMTask
NextPwm ==
    \/ UINext(0)
    \/ KeySrvPend(PwmKeyInputs) \/ KeySrvPost
    \/ PWMTask \/ PWMRate

SpecPwm == Init /\ [][NextPwm]_vars

\* every task runs when it can; the keypad need not deliver keys
FairSpecPwm ==
    SpecPwm /\ WF_vars(UINext(0)) /\ WF_vars(KeySrvPost) /\ WF_vars(PWMTask)

\* the UI task with every kind of key, and a fault
NextEntry ==
    \/ UINext(0)
    \/ KeySrvPend(EntryKeyInputs) \/ KeySrvPost
    \/ FaultEvent(EntryFaultInputs) \/ SPISrvPend \/ SPISrvPost

SpecEntry == Init /\ [][NextEntry]_vars

\* the two forwarders running ahead of the UI task
NextAhead ==
    \/ UIReceive \/ UIDispatch \/ UILoop
    \/ KeySrvPendUpTo(AheadKeyInputs, MaxAhead) \/ KeySrvPost
    \/ FaultEventUpTo(FaultInputs, MaxAhead) \/ SPISrvPend \/ SPISrvPost

SpecAhead == Init /\ [][NextAhead]_vars

\* the two forwarders filling the UI task's queue
NextQueue ==
    \/ UIReceive \/ UIDispatch \/ UILoop
    \/ KeySrvPendUpTo(QueueKeyInputs, MaxQueued) \/ KeySrvPost
    \/ FaultEventUpTo(QueueFaultInputs, MaxQueued) \/ SPISrvPend \/ SPISrvPost

SpecQueue == Init /\ [][NextQueue]_vars

\* the UI task with messages of other sizes in its queue
NextStray ==
    \/ UINext(0)
    \/ KeySrvPend(LinkKeyInputs) \/ KeySrvPost
    \/ StrayPost(StraySizes)

SpecStray == Init /\ [][NextStray]_vars

\* the UI task with the keys of a whole entry, and fault reports with and
\* without a fault
NextFault ==
    \/ UINext(0)
    \/ KeySrvPend(FaultKeyInputs) \/ KeySrvPost
    \/ FaultEvent(FaultInputs) \/ SPISrvPend \/ SPISrvPost

SpecFault == Init /\ [][NextFault]_vars

\* SPITask's loop
SPINext == SPIGetPend \/ SPIGetRead \/ SPIGetPost \/ SPIWaitTCF \/ SPIPush

\* the UI task, the key forwarder, SPITask and the link
NextStop ==
    \/ UINext(0)
    \/ KeySrvPend(LinkKeyInputs) \/ KeySrvPost
    \/ SPINext \/ LinkComplete

SpecStop == Init /\ [][NextStop]_vars

\* every task runs when it can and every transfer completes; the keypad need
\* not deliver keys
FairSpecStop ==
    /\ SpecStop
    /\ WF_vars(UINext(0)) /\ WF_vars(KeySrvPost)
    /\ WF_vars(SPINext) /\ WF_vars(LinkComplete)

(***************************************************************************)
(* Properties                                                              *)
(***************************************************************************)
\* UITask has handled the message it received to the end of the iteration
Handled == uiPc = "done"
HandledKey(k) == Handled /\ msg_size = 1 /\ copiedmsg = k
\* the accept key consumed in ADJUST/ENTER_ONES
HandledAccept ==
    HandledKey(A_KEY) /\ enteredIn = "ADJUST" /\ currentplace = "ONES"

\* the one-hot mask of output n
OneHot(n) == 2 ^ (n - 1)
OutName == <<"OUT1", "OUT2", "OUT3", "OUT4", "OUT5", "OUT6", "OUT7", "OUT8">>

\* C1: in every UI state, handling the emergency-stop key writes the command
\* 0x0000 and the duty cycle 0, writes nothing else, and ends in RUNNING.
C1_EmergencyStop ==
    HandledKey(D_KEY) =>
        /\ iterLog = << <<"spi", EMERGENCY_STOP>>, <<"pwm", 0>> >>
        /\ spiMsg = EMERGENCY_STOP
        /\ pwmrate = 0
        /\ currentstate = "RUNNING"

\* C2: an accept with a zero accumulator writes the one-hot mask of the chosen
\* output (output 4 -> 8, output 7 -> 64) as the command and does not call
\* setPwmRate.
C2_FullDrive ==
    (HandledAccept /\ nextPWMRate = 0) =>
        iterLog = << <<"spi", OneHot(whichOutput)>> >>

\* C3: an accept with a nonzero accumulator first writes the emergency-stop
\* command, then stores the accumulator as the duty cycle, and writes no
\* output-select command.
C3_PwmCommit ==
    (HandledAccept /\ nextPWMRate # 0) =>
        /\ iterLog = << <<"spi", EMERGENCY_STOP>>, <<"pwm", nextPWMRate>> >>
        /\ pwmrate = nextPWMRate
        /\ nextPWMRate \in 1..99

\* C4: a zero fault word received while RUNNING changes nothing: the UI stays
\* RUNNING with the status layer shown and the fault layer hidden.
C4_ZeroFaultNoop ==
    (Handled /\ msg_size = 2 /\ copiedmsg = NO_FAULT /\ enteredIn = "RUNNING") =>
        /\ currentstate = "RUNNING"
        /\ lcd.shown[UI_LAYER]
        /\ ~lcd.shown[FAULT_LAYER]

\* C5: in every UI state a nonzero fault word sets the state to FAULT, hides
\* the status layer and shows the fault layer with the fault banner.
C5_FaultShown ==
    (Handled /\ msg_size = 2 /\ copiedmsg # NO_FAULT) =>
        /\ currentstate = "FAULT"
        /\ ~lcd.shown[UI_LAYER]
        /\ lcd.shown[FAULT_LAYER]
        /\ lcd.layer[FAULT_LAYER].text[<<STATUS_ROW, FIRST_COL>>] = FAULT_MSG

\* a nonzero fault word handled in the middle of an entry, at the ones digit
C5_Witness ==
    /\ Handled /\ msg_size = 2 /\ copiedmsg # NO_FAULT
    /\ enteredIn = "ADJUST" /\ currentplace = "ONES"
    /\ currentstate = "FAULT"

\* C6: a fault word that is the mask of output k names OUTk in the banner,
\* any other nonzero word shows the multi-fault name, and a zero word never
\* produces a fault banner.
C6_Decode ==
    (Handled /\ msg_size = 2) =>
        IF copiedmsg = NO_FAULT
        THEN ~lcd.shown[FAULT_LAYER]
        ELSE /\ lcd.shown[FAULT_LAYER]
             /\ lcd.layer[FAULT_LAYER].text[<<STATUS_ROW, FAULT_MSG_OUT_COLLEM>>] =
                   IF \E k \in 1..8 : copiedmsg = OneHot(k)
                   THEN OutName[CHOOSE k \in 1..8 : copiedmsg = OneHot(k)]
                   ELSE "Many"

\* C7: SPITask pushes a word only when the link reports the previous transfer
\* complete, so at most one transfer is in flight at any time.
C7_OneTransfer ==
    /\ inflight <= 1
    /\ ((spiPc = "push") => (tcf /\ inflight = 0))

\* SPITask holds a command read from the command word and waits while the
\* previous transfer is still in flight
C7_Witness ==
    /\ spiPc = "wait_tcf" /\ inflight = 1 /\ ~tcf
    /\ Len(pushLog) >= 1 /\ Len(cmdLog) >= 1

\* C8: the words pushed onto the link are the words submitted by setSpiData,
\* in the same order, none replaced or overtaken before it is transmitted.
C8_Fifo ==
    /\ Len(pushLog) <= Len(cmdLog)
    /\ \A i \in 1..Len(pushLog) : pushLog[i] = cmdLog[i]

\* C9: SPITask never reads the command word while UITask is inside the
\* critical section of setSpiData.
C9_Exclusive == ~(spiPc = "get_read" /\ SpiDataKey = "UITask")

\* C10: every setPwmRate call wakes PWMTask from its blocking wait.
C10_WaiterWoken == (NewPwmRate > 0) ~> (pwmPc = "returned")

\* C11: in every reachable state the stored duty cycle is in 0..99, and so
\* is the accumulator whenever the UI is in ADJUST.
C11_RateRange ==
    /\ pwmrate \in 0..99
    /\ (currentstate = "ADJUST") => (nextPWMRate \in 0..99)

\* C12: a forwarder that posts to a full inbox waits and then delivers its
\* message: no forwarder ever stops in its error trap with its event
\* undelivered.
C12_Backpressure == (keyPc # "trap") /\ (spiSrvPc # "trap")

\* the value of the message UITask received, over the message's size
MsgValue == IF msg_size = 1 THEN copiedmsg % 256 ELSE copiedmsg

\* C13: the value UITask reads from a message is the value its forwarder
\* held when it posted the message, so each source's values arrive unchanged
\* and in order.
C13_SourceOrder == (uiPc = "dispatch") => (MsgValue = entry.sent)

\* C14: no task holds the command-word lock and the duty-cycle lock together;
\* a lock is held only by UITask between the pend and the post of one
\* accessor (where a read of address 0 may have stopped it), never at a
\* semaphore or queue wait; and a task that waits for a lock finds it free.
C14_LockDiscipline ==
    /\ ~(SpiDataKey # "free" /\ PwmRateKey # "free")
    /\ (SpiDataKey # "free") =>
          (SpiDataKey = "UITask" /\ uiPc \in {"spi_write", "spi_post", "faulted"})
    /\ (PwmRateKey # "free") =>
          (PwmRateKey = "UITask" /\ uiPc \in {"pwm_write", "pwm_post", "faulted"})
    /\ (uiPc = "spi_pend") => (SpiDataKey = "free")
    /\ (uiPc = "pwm_pend") => (PwmRateKey = "free")

\* UITask holds the duty-cycle lock, having released the command-word lock,
\* while SPITask is reading the command word
C14_Witness ==
    /\ PwmRateKey = "UITask" /\ uiPc = "pwm_write"
    /\ SpiDataKey = "free" /\ Len(cmdLog) >= 1
    /\ spiPc = "get_read"

\* C15: every fault event signalled is forwarded as one message that carries
\* the fault word of that event: the events not yet taken are as many as the
\* semaphore counts, and the word the listener forwards is the word of the
\* event it took.
C15_FaultForward ==
    /\ spiFaultFlag = Len(faultEvents)
    /\ (spiSrvPc = "post") => (spimsg = evWord)

\* the channel an output key stands for
ChannelOfKey(k) == k - NUMBER_KEY_TO_DEC_FACTOR

\* C16: a back key at the ones digit moves to the tens digit and leaves the
\* accumulator, the chosen channel and the command candidate as they were; a
\* back key at the tens digit moves to the output selection and clears the
\* accumulator; neither writes a command or a duty cycle nor leaves ADJUST;
\* and a channel key after the back selects that channel and its one-hot
\* command pattern.
C16_BackKeys ==
    /\ (HandledKey(B_KEY) /\ enteredIn = "ADJUST" /\ entry.place = "ONES") =>
          /\ currentplace = "TENS" /\ currentstate = "ADJUST" /\ iterLog = <<>>
          /\ nextPWMRate = entry.rate
          /\ whichOutput = entry.which
          /\ nextSpiMsg = entry.msg
    /\ (HandledKey(B_KEY) /\ enteredIn = "ADJUST" /\ entry.place = "TENS") =>
          /\ currentplace = "OUT" /\ currentstate = "ADJUST" /\ iterLog = <<>>
          /\ nextPWMRate = 0
    /\ \A k \in {FOUR_KEY, SEV_KEY} :
          (HandledKey(k) /\ enteredIn = "ADJUST" /\ entry.place = "OUT"
                         /\ entry.which # 0) =>
             /\ currentplace = "TENS"
             /\ whichOutput = ChannelOfKey(k)
             /\ nextSpiMsg = OneHot(ChannelOfKey(k))

\* the keys that have a function in each state and sub-state
Meaningful(state, place, k) ==
    \/ k = D_KEY
    \/ state = "RUNNING" /\ k = A_KEY
    \/ state = "ADJUST" /\ place = "OUT" /\ k \in {FOUR_KEY, SEV_KEY}
    \/ state = "ADJUST" /\ place = "TENS" /\ k \in (ZERO_KEY..NIN_KEY) \cup {B_KEY}
    \/ state = "ADJUST" /\ place = "ONES" /\ k \in (ZERO_KEY..NIN_KEY) \cup {B_KEY, A_KEY}

\* the handler has left the UI's data and the display as they were when the
\* message was received, and has written no command and no duty cycle
Ignored ==
    /\ currentstate = enteredIn
    /\ currentplace = entry.place
    /\ whichOutput = entry.which
    /\ nextPWMRate = entry.rate
    /\ nextSpiMsg = entry.msg
    /\ lcd = entry.lcd
    /\ iterLog = <<>>

\* C17: a key with no function in the state and sub-state in which it is
\* received leaves UI state, sub-state, pending selection, command word, duty
\* cycle and display unchanged.
C17_IgnoredKeys ==
    (Handled /\ msg_size = 1 /\ ~Meaningful(enteredIn, entry.place, copiedmsg)) =>
        Ignored

\* the accept key received at the tens digit with channel 7 chosen
C17_Witness ==
    /\ HandledKey(A_KEY) /\ enteredIn = "ADJUST"
    /\ entry.place = "TENS" /\ entry.which = 7
    /\ Ignored

\* C18: UITask takes exactly the head of its queue when it receives and
\* nothing more until the next receive; a message whose size is neither 1
\* nor 2 changes no UI state, sub-state, pending selection, command word,
\* duty cycle or display; and after the iteration UITask is back at the
\* receive.
C18_OnePerIteration ==
    [][ /\ (uiPc = "pend" /\ uiPc' # "pend") => (inbox' = Tail(inbox))
        /\ (uiPc # "pend") => (Len(inbox') >= Len(inbox))
        /\ (uiPc' = "done" /\ msg_size' \notin {1, 2}) => Ignored'
        /\ (uiPc = "done" /\ uiPc' # "done") => (uiPc' = "pend")
      ]_vars

\* a 4-byte message handled in the middle of an entry
C18_Witness ==
    /\ Handled /\ msg_size = 4
    /\ enteredIn = "ADJUST" /\ currentstate = "ADJUST"
    /\ Ignored

\* C19: under fair scheduling UITask, once it has received a message, always
\* comes back to its queue receive (the calls to setSpiData and setPwmRate
\* included), and every message in the queue is eventually received.
C19_UIReturns ==
    /\ (uiPc # "pend") ~> (uiPc = "pend")
    /\ (inbox # <<>>) ~> (uiPc = "dispatch")

\* C20: a digit d at the tens digit sets the accumulator to 10*d plus the old
\* ones digit and moves to the ones digit; a digit d at the ones digit sets
\* it to d plus ten times the old tens digit and stays at the ones digit.
C20_DigitEntry ==
    \A k \in ZERO_KEY..NIN_KEY :
        /\ (HandledKey(k) /\ enteredIn = "ADJUST" /\ entry.place = "TENS") =>
              /\ nextPWMRate = 10 * (k - ZERO_KEY) + (entry.rate % 10)
              /\ currentplace = "ONES"
        /\ (HandledKey(k) /\ enteredIn = "ADJUST" /\ entry.place = "ONES") =>
              /\ nextPWMRate = (k - ZERO_KEY) + 10 * (entry.rate \div 10)
              /\ currentplace = "ONES"

\* the tens digit is overwritten with 4 while a nonzero ones digit is kept
C20_Witness ==
    /\ HandledKey(FOUR_KEY) /\ enteredIn = "ADJUST" /\ entry.place = "TENS"
    /\ entry.rate % 10 # 0
    /\ nextPWMRate = 40 + (entry.rate % 10)

\* C21: SPITask pushes a word only in response to a new-command signal: the
\* words it has pushed (the dummy transfer of the initialisation apart) are
\* never more than the commands setSpiData has written.
C21_PushOnSignal == Len(pushLog) <= Len(cmdLog)

\* C22: a 2-byte message consumed in any ADJUST sub-state changes none of the
\* chosen channel, the command candidate, the accumulator and the sub-state
\* and writes no command and no duty cycle; the entry is abandoned: FAULT is
\* left only for RUNNING, a zero fault word received in FAULT gives RUNNING,
\* and digit, back and accept keys received in FAULT, and digit and back keys
\* received in RUNNING, have no effect.
C22_FaultInAdjust ==
    /\ (Handled /\ msg_size = 2 /\ enteredIn = "ADJUST") =>
          /\ currentplace = entry.place
          /\ whichOutput = entry.which
          /\ nextPWMRate = entry.rate
          /\ nextSpiMsg = entry.msg
          /\ iterLog = <<>>
          /\ currentstate # "ADJUST"
    /\ (Handled /\ enteredIn = "FAULT") => (currentstate \in {"FAULT", "RUNNING"})
    /\ (Handled /\ msg_size = 2 /\ copiedmsg = NO_FAULT /\ enteredIn = "FAULT") =>
          (currentstate = "RUNNING")
    /\ (Handled /\ msg_size = 1 /\ enteredIn = "FAULT"
                /\ copiedmsg \in (ZERO_KEY..NIN_KEY) \cup {B_KEY, A_KEY}) => Ignored
    /\ (Handled /\ msg_size = 1 /\ enteredIn = "RUNNING"
                /\ copiedmsg \in (ZERO_KEY..NIN_KEY) \cup {B_KEY}) => Ignored

\* a fault word handled at the ones digit with channel 4 and a nonzero
\* accumulator entered, all of which it has left as they were
C22_Witness ==
    /\ Handled /\ msg_size = 2 /\ copiedmsg # NO_FAULT
    /\ enteredIn = "ADJUST" /\ entry.place = "ONES"
    /\ entry.which = 4 /\ entry.rate = 40
    /\ whichOutput = 4 /\ nextPWMRate = 40 /\ currentplace = "ONES"
    /\ currentstate = "FAULT"

\* the zero fault word that ends the fault which interrupted an entry at the
\* tens digit: the UI is RUNNING with the entry's data still in place
C22_Cleared ==
    /\ Handled /\ msg_size = 2 /\ copiedmsg = NO_FAULT /\ enteredIn = "FAULT"
    /\ currentstate = "RUNNING" /\ currentplace = "TENS" /\ whichOutput = 4

\* UITask has come to the end of what it does with the message it received
Ended == uiPc \in {"done", "faulted"}

\* C23: once the UI is in FAULT it stays in FAULT until UITask has consumed a
\* 2-byte message with the value 0 or the 1-byte emergency-stop key; each of
\* the two sets RUNNING, hides the fault layer and shows the status layer; no
\* other key or message leaves FAULT.
C23_FaultExit ==
    /\ (enteredIn = "FAULT" /\ ~Ended) => (currentstate = "FAULT")
    /\ (enteredIn = "FAULT" /\ Ended) =>
          IF \/ msg_size = 2 /\ copiedmsg = NO_FAULT
             \/ msg_size = 1 /\ copiedmsg = D_KEY
          THEN /\ currentstate = "RUNNING"
               /\ ~lcd.shown[FAULT_LAYER]
               /\ lcd.shown[UI_LAYER]
          ELSE currentstate = "FAULT"

\* C24: after UITask has handled any message exactly one of the two layers is
\* visible: the fault layer if and only if the UI is in FAULT, the status
\* layer if and only if it is RUNNING or in ADJUST.
C24_LayerExclusive ==
    (uiPc \in {"done", "pend"}) =>
        /\ lcd.shown[FAULT_LAYER] = (currentstate = "FAULT")
        /\ lcd.shown[UI_LAYER] = (currentstate \in {"RUNNING", "ADJUST"})
        /\ lcd.shown[FAULT_LAYER] # lcd.shown[UI_LAYER]

\* a zero fault word handled in ADJUST: the fault layer alone is visible
C24_Witness ==
    /\ Handled /\ msg_size = 2 /\ copiedmsg = NO_FAULT /\ enteredIn = "ADJUST"
    /\ currentstate = "FAULT"
    /\ lcd.shown[FAULT_LAYER] /\ ~lcd.shown[UI_LAYER]

\* C25: after UITask has handled any message the command word is never an
\* output-select pattern (nonzero) while the stored duty cycle is nonzero.
C25_DriveExclusive ==
    (uiPc \in {"done", "pend"}) => ~(spiMsg # EMERGENCY_STOP /\ pwmrate # 0)

\* C26: a nonzero command word or a nonzero duty cycle is written only while
\* UITask handles the accept key received in ADJUST at the ones digit; what
\* is written is the command candidate or the accumulator of the entry, and
\* the channel and the candidate are the ones a channel key has set since the
\* select key reset them.
C26_WriteOrigin ==
    /\ \A i \in 1..Len(iterLog) :
          (iterLog[i][2] # 0) =>
             /\ msg_size = 1 /\ copiedmsg = A_KEY
             /\ enteredIn = "ADJUST" /\ entry.place = "ONES"
             /\ iterLog[i] \in {<<"spi", nextSpiMsg>>, <<"pwm", nextPWMRate>>}
    /\ (uiPc # "pend" /\ msg_size = 1 /\ copiedmsg = A_KEY
                      /\ enteredIn = "ADJUST" /\ entry.place = "ONES") =>
          /\ whichOutput \in {4, 7}
          /\ nextSpiMsg = SpiMsgOfKey(whichOutput + NUMBER_KEY_TO_DEC_FACTOR)

\* C27: under fair scheduling, with transfers that always complete, every
\* emergency-stop key UITask has handled is followed by SPITask pushing the
\* emergency-stop word 0x0000 onto the link.
C27_StopReachesLink ==
    HandledKey(D_KEY) ~> (spiPc = "push" /\ newMsg = EMERGENCY_STOP)

\* C28: the entry cursor is on only during ADJUST: whenever UITask has handled
\* a message and the UI is RUNNING, the cursor is off.
C28_CursorOff ==
    (uiPc \in {"done", "pend"} /\ currentstate = "RUNNING") =>
        (lcd.cursor.on = CURSOR_OFF)

====
